---- MODULE Spec2Model ----
(***************************************************************************)
(* The map container codec of tw-editor: MapExporter.exportMap             *)
(* (src/src/map/MapExporter.ts) and MapReader.read                         *)
(* (src/src/map/MapReader.ts), modelled at byte level.  A buffer is a      *)
(* sequence of bytes; byte offset k of the ArrayBuffer is buffer[k+1].     *)
(***************************************************************************)
EXTENDS Integers, Sequences, FiniteSets, TLC

(* ---------------------------------------------------------------------- *)
(* Bounds of the model                                                     *)
(* ---------------------------------------------------------------------- *)
MaxItems == 3

(* ---------------------------------------------------------------------- *)
(* Program constants: src/src/types/map.ts, src/src/map/MapExporter.ts     *)
(* ---------------------------------------------------------------------- *)
VERSION == 0
INFO == 1
IMAGE == 2
ENVELOPE == 3
GROUP == 4
LAYER == 5
ENVPOINT == 6

GAME == 1
TILES == 2
QUADS == 3

HEADER_SIZE == 36
ITEMTYPE_SIZE == 12
ITEM_SIZE == 8

(* ---------------------------------------------------------------------- *)
(* Generic helpers                                                         *)
(* ---------------------------------------------------------------------- *)
RECURSIVE SumSeq(_)
SumSeq(s) == IF s = <<>> THEN 0 ELSE Head(s) + SumSeq(Tail(s))

RECURSIVE Concat(_)
Concat(ss) == IF ss = <<>> THEN <<>> ELSE Head(ss) \o Concat(Tail(ss))

Zeros(n) == [k \in 1..n |-> 0]

(* running sum: the offset of every element of a sequence of sizes *)
RunningSum(sizes) == [i \in 1..Len(sizes) |-> SumSeq(SubSeq(sizes, 1, i - 1))]

(* ---------------------------------------------------------------------- *)
(* DataView.setInt32(off, v, true) / getInt32(off, true): 32-bit two's     *)
(* complement, little endian.  \div floors and % is non-negative, so the   *)
(* four bytes of a negative v are those of v + 2^32.                       *)
(* ---------------------------------------------------------------------- *)
I32Bytes(v) ==
  << v % 256, (v \div 256) % 256, (v \div 65536) % 256, (v \div 16777216) % 256 >>

WordsBytes(ws) == Concat([i \in 1..Len(ws) |-> I32Bytes(ws[i])])

BytesI32(b) ==
  b[1] + 256 * b[2] + 65536 * b[3]
    + 16777216 * (IF b[4] >= 128 THEN b[4] - 256 ELSE b[4])

(* getInt32 at byte offset off of buf; the caller checks the range *)
GetInt32(buf, off) == BytesI32(SubSeq(buf, off + 1, off + 4))

(* item.typeAndId >> 16 : arithmetic (sign-propagating) shift *)
TypeOf(typeAndId) == typeAndId \div 65536

(* typeAndId & 0xFFFF *)
IdOf(typeAndId) == typeAndId % 65536

(* (type << 16) | id for 0 <= id < 65536 *)
MkTypeAndId(type, id) == type * 65536 + id

(* ---------------------------------------------------------------------- *)
(* MapItem (src/src/types/map.ts:136-140, plus the typeAndId every user of *)
(* the type reads).  kind is the shape of item.parsed ("none": parsed is   *)
(* undefined); the other fields are those of the shape, 0 / <<>> when the  *)
(* shape has no such field.                                                *)
(*   g        = <<offsetX, offsetY, parallaxX, parallaxY, startLayer,      *)
(*                numLayers, useClipping, clipX, clipY, clipW, clipH>>     *)
(*   color    = <<r, g, b, a>>                                             *)
(*   tileData = sequence of <<id, flags, skip, reserved>>                  *)
(* ---------------------------------------------------------------------- *)
NoGroup == <<0, 0, 0, 0, 0, 0, 0, 0, 0, 0, 0>>
NoColor == <<0, 0, 0, 0>>

MkItem(typeAndId, kind) ==
  [typeAndId |-> typeAndId, kind |-> kind, width |-> 0, height |-> 0,
   external |-> FALSE, name |-> <<>>, g |-> NoGroup, ltype |-> 0, flags |-> 0,
   color |-> NoColor, image |-> 0, tileData |-> <<>>]

(* !item.parsed is false *)
HasParsed(item) == item.kind # "none"

(* 'f' in item.parsed, by the interfaces of src/src/types/map.ts *)
HasField(item, f) ==
  CASE f = "version"  -> item.kind \in {"version", "info", "tiles"}
    [] f = "width"    -> item.kind \in {"image", "tiles"}
    [] f = "name"     -> item.kind \in {"image", "group", "tiles"}
    [] f = "offsetX"  -> item.kind = "group"
    [] f = "tileData" -> item.kind = "tiles"
    [] OTHER          -> FALSE

(* TextEncoder.encode of a string given by its code points (< 2048) *)
Utf8(cs) ==
  Concat([i \in 1..Len(cs) |->
            IF cs[i] < 128 THEN <<cs[i]>>
            ELSE <<192 + (cs[i] \div 64), 128 + (cs[i] % 64)>>])

(* ---------------------------------------------------------------------- *)
(* pako.deflate / inflate: an opaque inverse pair.  The zlib stream is     *)
(* modelled as 2 header bytes, a stored body (flag, length, the bytes) and *)
(* a 4-byte checksum: 8 bytes for empty input, as pako produces.           *)
(* ---------------------------------------------------------------------- *)
Deflate(d) == <<120, 156, 1, Len(d)>> \o d \o <<0, 0, 0, (1 + SumSeq(d)) % 256>>

Inflate(c) == SubSeq(c, 5, 4 + c[4])

(* ---------------------------------------------------------------------- *)
(* MapExporter.prepareMapData                                              *)
(* ---------------------------------------------------------------------- *)
VersionItem == MkItem(MkTypeAndId(VERSION, 0), "version")
InfoItem == MkItem(MkTypeAndId(INFO, 0), "info")
EnvpointItem == MkItem(MkTypeAndId(ENVPOINT, 0), "none")

PrepareItems(input) == <<VersionItem, InfoItem>> \o input \o <<EnvpointItem>>

(* a prepareMapData that pushes the Version, Info and Envpoint items into  *)
(* the caller's own items array                                            *)
InputAfterPrepare_InPlace(input) == PrepareItems(input)

(* the caller's items array once prepareMapData has returned: the items    *)
(* are collected in a new array (`const items = []`, `items.push(          *)
(* ...mapData.items)`) and handed back in a new object (`{...mapData,      *)
(* items, itemTypes}`), so the array passed in is never written (lines     *)
(* 346-407); exportMap only reads the items after that                     *)
InputAfterPrepare(input) == input

RECURSIVE SortAsc(_)
SortAsc(S) ==
  IF S = {} THEN <<>>
  ELSE LET m == CHOOSE x \in S : \A y \in S : x <= y
       IN <<m>> \o SortAsc(S \ {m})

TypeSeq(its) == [i \in 1..Len(its) |-> TypeOf(its[i].typeAndId)]

(* an item-type table whose counts are the span from the first to the last *)
(* item of the type                                                        *)
BuildItemTypes_Span(its) ==
  LET ts == TypeSeq(its)
      ids == SortAsc({ts[i] : i \in 1..Len(ts)})
  IN [k \in 1..Len(ids) |->
        LET at == {i \in 1..Len(ts) : ts[i] = ids[k]}
            first == CHOOSE i \in at : \A j \in at : i <= j
            last == CHOOSE i \in at : \A j \in at : i >= j
        IN [typeId |-> ids[k], start |-> first - 1, num |-> last - first + 1]]

(* typeMap, then Array.from(typeMap.entries()).sort(...).map(...) *)
BuildItemTypes(its) ==
  LET ts == TypeSeq(its)
      ids == SortAsc({ts[i] : i \in 1..Len(ts)})
  IN [k \in 1..Len(ids) |->
        LET at == {i \in 1..Len(ts) : ts[i] = ids[k]}
        IN [typeId |-> ids[k],
            start |-> (CHOOSE i \in at : \A j \in at : i <= j) - 1,
            num |-> Cardinality(at)]]

(* ---------------------------------------------------------------------- *)
(* MapExporter.exportMap: data blocks                                      *)
(* ---------------------------------------------------------------------- *)
RECURSIVE ImageIdx(_, _)
(* positions (1-based) of the items of type IMAGE, from position i on *)
ImageIdx(its, i) ==
  IF i > Len(its) THEN <<>>
  ELSE (IF TypeOf(its[i].typeAndId) = IMAGE THEN <<i>> ELSE <<>>)
         \o ImageIdx(its, i + 1)

IsTileLayer(item) ==
  TypeOf(item.typeAndId) = LAYER /\ HasParsed(item) /\ HasField(item, "tileData")

RECURSIVE LayerIdx(_, _)
LayerIdx(its, i) ==
  IF i > Len(its) THEN <<>>
  ELSE (IF IsTileLayer(its[i]) THEN <<i>> ELSE <<>>) \o LayerIdx(its, i + 1)

ImageName(item) ==
  IF ~HasParsed(item) \/ ~HasField(item, "name") THEN <<>>
  ELSE Utf8(item.name) \o <<0>>

BuildImageData(its) ==
  LET ix == ImageIdx(its, 1) IN [j \in 1..Len(ix) |-> ImageName(its[ix[j]])]

(* a tile grid whose flags byte keeps the flip and rotation bits only *)
LayerData_FlagBitsOnly(item) ==
  [k \in 1..(item.width * item.height * 4) |->
     LET i == (k - 1) \div 4
         f == (k - 1) % 4
     IN IF i + 1 <= Len(item.tileData)
        THEN (IF f = 1 THEN item.tileData[i + 1][f + 1] % 16
              ELSE item.tileData[i + 1][f + 1] % 256)
        ELSE 0]

(* new Uint8Array(width*height*4) filled from tileData; a store past the   *)
(* end of the typed array is dropped, a stored value is taken mod 256      *)
LayerData(item) ==
  [k \in 1..(item.width * item.height * 4) |->
     LET i == (k - 1) \div 4
         f == (k - 1) % 4
     IN IF i + 1 <= Len(item.tileData) THEN item.tileData[i + 1][f + 1] % 256
        ELSE 0]

BuildLayerData(its) ==
  LET ix == LayerIdx(its, 1) IN [j \in 1..Len(ix) |-> LayerData(its[ix[j]])]

(* ---------------------------------------------------------------------- *)
(* MapExporter.calculateItemDataSize (in int32 words)                      *)
(* ---------------------------------------------------------------------- *)
calculateItemDataSize(item) ==
  IF ~HasParsed(item) THEN 0
  ELSE LET type == TypeOf(item.typeAndId) IN
    CASE type = VERSION -> 1
      [] type = INFO    -> 6
      [] type = IMAGE   -> IF HasField(item, "width") THEN 6 ELSE 0
      [] type = GROUP   -> IF HasField(item, "offsetX") THEN 15 ELSE 0
      [] type = LAYER   -> IF HasField(item, "tileData") THEN 20 ELSE 0
      [] OTHER          -> 0

(* ---------------------------------------------------------------------- *)
(* MapExporter.exportMap: the words the payload writer stores from         *)
(* itemOffset + 8 on, for the item at position index (0-based) of its      *)
(* (the switch of lines 169-295).                                          *)
(* ---------------------------------------------------------------------- *)
(* imageItems.findIndex(img => img === item) *)
ImageIndexOf(its, index) == Len(ImageIdx(SubSeq(its, 1, index), 1))

(* imageData.length + (index - (mapCopy.items.length - layerCount)) *)
LayerIndexOf(its, index) ==
  Len(ImageIdx(its, 1)) + (index - (Len(its) - Len(LayerIdx(its, 1))))

PayloadWords(its, index) ==
  LET item == its[index + 1]
      type == TypeOf(item.typeAndId)
  IN IF ~HasParsed(item) THEN <<>>
     ELSE CASE type = VERSION ->
                 IF HasField(item, "version") THEN <<1>> ELSE <<>>
            [] type = INFO ->
                 IF HasField(item, "version") THEN <<1, -1, -1, -1, -1, -1>>
                 ELSE <<>>
            [] type = IMAGE ->
                 IF HasField(item, "width")
                 THEN <<1, item.width, item.height, 1,
                        ImageIndexOf(its, index), ImageIndexOf(its, index)>>
                 ELSE <<>>
            [] type = GROUP ->
                 IF HasField(item, "offsetX")
                 THEN <<3>> \o item.g \o <<-1, -1, -1>>
                 ELSE <<>>
            [] type = LAYER ->
                 IF HasField(item, "tileData")
                 THEN <<3, item.ltype, item.flags,
                        item.width, item.height, item.flags>>
                      \o item.color
                      \o <<-1, 0, item.image, LayerIndexOf(its, index)>>
                      \o <<-1, -1, -1>>
                      \o <<-1, -1, -1, -1, -1>>
                 ELSE <<>>
            [] OTHER -> <<>>

(* ---------------------------------------------------------------------- *)
(* Input documents: mapData.items of at most MaxItems items, each one of   *)
(* these.  Images, groups and tile layers as an editor document holds      *)
(* them; raw Version and Envpoint items as MapReader.read returns them     *)
(* (read never fills in parsed).                                           *)
(* ---------------------------------------------------------------------- *)
ImageA ==
  [MkItem(MkTypeAndId(IMAGE, 0), "image") EXCEPT
     !.width = 64, !.height = 32, !.external = TRUE, !.name = <<97, 233>>]

GroupA ==
  [MkItem(MkTypeAndId(GROUP, 0), "group") EXCEPT
     !.name = <<71>>,
     !.g = <<-1, 2, 100, 100, 0, 1, 0, 0, 0, 0, 0>>]

LayerA ==
  [MkItem(MkTypeAndId(LAYER, 0), "tiles") EXCEPT
     !.width = 2, !.height = 2, !.ltype = TILES, !.flags = 0,
     !.color = <<255, 255, 255, 255>>, !.image = -1, !.name = <<76>>,
     !.tileData = <<<<0, 0, 0, 0>>, <<0, 0, 0, 0>>, <<0, 0, 0, 0>>, <<0, 0, 0, 0>>>>]

LayerB ==
  [MkItem(MkTypeAndId(LAYER, 0), "tiles") EXCEPT
     !.width = 2, !.height = 1, !.ltype = TILES, !.flags = 1,
     !.color = <<255, 255, 255, 255>>, !.image = 0, !.name = <<77>>,
     !.tileData = <<<<1, 9, 0, 0>>, <<255, 6, 2, 0>>>>]

RawVersion == MkItem(MkTypeAndId(VERSION, 0), "none")

RawEnvpoint == MkItem(MkTypeAndId(ENVPOINT, 0), "none")

ItemChoices == {ImageA, GroupA, LayerA, LayerB, RawVersion, RawEnvpoint}

RECURSIVE SeqsUpTo(_, _)
SeqsUpTo(S, n) ==
  IF n = 0 THEN {<<>>}
  ELSE LET shorter == SeqsUpTo(S, n - 1)
       IN shorter \cup {Append(s, x) : s \in {t \in shorter : Len(t) = n - 1}, x \in S}

(* a document with 1 image, 1 group, 2 tile layers and 1 envpoint item *)
ScenarioC == <<ImageA, GroupA, LayerA, LayerB, RawEnvpoint>>

Inputs == SeqsUpTo(ItemChoices, MaxItems) \cup {ScenarioC}

(* ---------------------------------------------------------------------- *)
(* MapReader (src/src/map/MapReader.ts:1-124): read() over a cursor.       *)
(* A result is [ok, off, ...]; ok = FALSE is a thrown RangeError.          *)
(* ---------------------------------------------------------------------- *)
Min(a, b) == IF a < b THEN a ELSE b
Max(a, b) == IF a > b THEN a ELSE b

(* ArrayBuffer.prototype.slice(begin, end) *)
Slice(buf, begin, end) ==
  LET n == Len(buf)
      b == IF begin < 0 THEN Max(n + begin, 0) ELSE Min(begin, n)
      e == IF end < 0 THEN Max(n + end, 0) ELSE Min(end, n)
  IN SubSeq(buf, b + 1, e)

(* reads that take the bytes missing past the end of the buffer as zeros *)
readOffsets_ZeroFill(buf, off, count) ==
  IF count <= 0 THEN [ok |-> TRUE, off |-> off, vals |-> <<>>]
  ELSE [ok |-> TRUE, off |-> off + 4 * count,
        vals |-> [i \in 1..count |->
                    GetInt32(buf \o Zeros(Max(0, off + 4 * count - Len(buf))),
                             off + 4 * (i - 1))]]

(* count successive readInt32 calls from off (readOffsets, readItemType) *)
readOffsets(buf, off, count) ==
  IF count <= 0 THEN [ok |-> TRUE, off |-> off, vals |-> <<>>]
  ELSE IF off < 0 \/ (Len(buf) - off) \div 4 < count
       THEN [ok |-> FALSE, off |-> off + 4 * Max(0, (Len(buf) - off) \div 4),
             vals |-> <<>>]
       ELSE [ok |-> TRUE, off |-> off + 4 * count,
             vals |-> [i \in 1..count |-> GetInt32(buf, off + 4 * (i - 1))]]

(* a signature test that knows the forward tag only *)
isValidSignature_ForwardOnly(sig) == sig = <<68, 65, 84, 65>>

(* 'DATA' or 'ATAD' *)
isValidSignature(sig) == sig = <<68, 65, 84, 65>> \/ sig = <<65, 84, 65, 68>>

RECURSIVE readItems(_, _, _)
(* count successive readItem calls from off *)
readItems(buf, off, count) ==
  IF count <= 0 THEN [ok |-> TRUE, off |-> off, vals |-> <<>>]
  ELSE LET h == readOffsets(buf, off, 2) IN
    IF ~h.ok THEN [ok |-> FALSE, off |-> h.off, vals |-> <<>>]
    ELSE LET size == h.vals[2]
             item == [typeAndId |-> h.vals[1], size |-> size,
                      data |-> Slice(buf, h.off, h.off + size)]
             rest == readItems(buf, h.off + size, count - 1)
         IN [ok |-> rest.ok, off |-> rest.off, vals |-> <<item>> \o rest.vals]

RECURSIVE readBlocks(_, _, _, _, _)
(* the data-block loop of read(): block i (0-based) of numData *)
readBlocks(buf, off, i, dataOffsets, dataSize) ==
  LET numData == Len(dataOffsets) IN
  IF i >= numData THEN <<>>
  ELSE LET size == IF i < numData - 1
                   THEN dataOffsets[i + 2] - dataOffsets[i + 1]
                   ELSE dataSize - dataOffsets[i + 1]
       IN <<Slice(buf, off, off + size)>>
            \o readBlocks(buf, off + size, i + 1, dataOffsets, dataSize)

Failed(why) == [status |-> why]

(* a reader that expects the uncompressed-length table in every version *)
HasDataSizes_Always(version) == TRUE

(* header.version === 4 ? this.readOffsets(header.numData) : undefined *)
HasDataSizes(version) == version = 4

(* the header object of readHeader, from the 8 words after the signature *)
HeaderOf(vals) ==
  [version |-> vals[1], size |-> vals[2], swapLen |-> vals[3],
   numItemTypes |-> vals[4], numItems |-> vals[5], numData |-> vals[6],
   itemSize |-> vals[7], dataSize |-> vals[8]]

(* the ItemTypeInfo objects of successive readItemType calls *)
ItemTypesOf(vals) ==
  [k \in 1..(Len(vals) \div 3) |->
     [typeId |-> vals[3 * k - 2], start |-> vals[3 * k - 1], num |-> vals[3 * k]]]

MapReaderRead(buf) ==
  IF Len(buf) < 4 THEN Failed("RangeError")
  ELSE IF ~isValidSignature(SubSeq(buf, 1, 4)) THEN Failed("Invalid map file signature")
  ELSE LET h == readOffsets(buf, 4, 8) IN
    IF ~h.ok THEN Failed("RangeError")
    ELSE LET header == HeaderOf(h.vals)
             ty == readOffsets(buf, h.off, 3 * header.numItemTypes)
         IN IF ~ty.ok THEN Failed("RangeError")
    ELSE LET io == readOffsets(buf, ty.off, header.numItems) IN
         IF ~io.ok THEN Failed("RangeError")
    ELSE LET do == readOffsets(buf, io.off, header.numData) IN
         IF ~do.ok THEN Failed("RangeError")
    ELSE LET ds == IF HasDataSizes(header.version)
                   THEN readOffsets(buf, do.off, header.numData)
                   ELSE [ok |-> TRUE, off |-> do.off, vals |-> <<>>]
         IN IF ~ds.ok THEN Failed("RangeError")
    ELSE LET it == readItems(buf, ds.off, header.numItems) IN
         IF ~it.ok THEN Failed("RangeError")
    ELSE [status |-> "ok",
          header |-> header,
          itemTypes |-> ItemTypesOf(ty.vals),
          itemOffsets |-> io.vals,
          dataOffsets |-> do.vals,
          hasDataSizes |-> HasDataSizes(header.version),
          dataSizes |-> ds.vals,
          items |-> it.vals,
          data |-> readBlocks(buf, it.off, 0, do.vals, header.dataSize)]

(* ---------------------------------------------------------------------- *)
(* MapReader's item decoders (src/src/map/MapReader.ts:188-224), on the    *)
(* bytes of item.data.                                                     *)
(* ---------------------------------------------------------------------- *)
(* view.getUint16(off, true) *)
GetUint16(bytes, off) == bytes[off + 1] + 256 * bytes[off + 2]

RECURSIVE StringEnd(_, _)
(* readString's scan: the offset of the first zero UTF-16 unit from off    *)
(* on, or -1 when the scan leaves the view (getUint16 throws a RangeError) *)
StringEnd(bytes, off) ==
  IF off + 2 > Len(bytes) THEN -1
  ELSE IF GetUint16(bytes, off) = 0 THEN off
  ELSE StringEnd(bytes, off + 2)

(* parseGroupItem: the eleven int32 fields from offset 0, the name from 44 *)
parseGroupItem(bytes) ==
  IF Len(bytes) < 44 \/ StringEnd(bytes, 44) < 0 THEN Failed("RangeError")
  ELSE [status |-> "ok",
        g |-> [k \in 1..11 |-> GetInt32(bytes, 4 * (k - 1))],
        name |-> SubSeq(bytes, 45, StringEnd(bytes, 44))]

(* parseLayerItem: the sub-codec chosen by the int32 at offset 0 *)
parseLayerItem(bytes) ==
  IF Len(bytes) < 8 THEN Failed("RangeError")
  ELSE LET type == GetInt32(bytes, 0)
           flags == GetInt32(bytes, 4)
       IN CASE type = TILES -> [status |-> "ok", codec |-> "tiles", type |-> type, flags |-> flags]
            [] type = QUADS -> [status |-> "ok", codec |-> "quads", type |-> type, flags |-> flags]
            [] OTHER -> [status |-> "ok", codec |-> "none", type |-> type, flags |-> flags]

(* ---------------------------------------------------------------------- *)
(* State of one exportMap call followed by one MapReader.read of its       *)
(* result.                                                                 *)
(*   mapItems        mapData.items, the argument                           *)
(*   pc              position in exportMap / read                          *)
(*   items,itemTypes mapCopy.items, mapCopy.itemTypes                      *)
(*   data            the uncompressed blocks (imageData, then layers)      *)
(*   compressedData, itemSizes, itemOffsets, dataOffsets: as in the code   *)
(*   buffer          the ArrayBuffer; wcount[k] counts the stores to byte  *)
(*                   k-1 (bookkeeping of the model, not program state)     *)
(*   idx             index of the forEach in progress                      *)
(*   doc             what MapReader.read returned (its locals while it      *)
(*                   runs step by step)                                    *)
(*   offset          MapReader.offset, the read cursor                     *)
(*   hist            the exportMap calls made so far by one caller, each   *)
(*                   with the document passed, the document as it is when  *)
(*                   the call ends, and what the call produced             *)
(*   layers          LayerProvider's layers state                          *)
(*   selectedLayer   LayerProvider's selectedLayer state                   *)
(*   initialLayers   the initialLayers prop of LayerProvider               *)
(*   paint           the last TileManager.setTile call: its coordinates,   *)
(*                   its return value and whether it changed the grid      *)
(* ---------------------------------------------------------------------- *)
VARIABLES mapItems, pc, items, itemTypes, data, compressedData,
          itemSizes, itemOffsets, dataOffsets, buffer, wcount, idx, doc, offset,
          hist, layers, selectedLayer, initialLayers, paint

vars == <<mapItems, pc, items, itemTypes, data, compressedData,
          itemSizes, itemOffsets, dataOffsets, buffer, wcount, idx, doc, offset,
          hist, layers, selectedLayer, initialLayers, paint>>

(* the editor's state, left alone by the exporter and the reader *)
edVars == <<layers, selectedLayer, initialLayers, paint>>

(* inside: the coordinates passed were those of a cell of the grid *)
NoPaint == [inside |-> FALSE, ret |-> FALSE, changed |-> FALSE, called |-> FALSE]

EditorIdle ==
  /\ layers = <<>>
  /\ selectedLayer = 0
  /\ initialLayers = <<>>
  /\ paint = NoPaint

Init ==
  /\ mapItems \in Inputs
  /\ pc = "start"
  /\ items = <<>>
  /\ itemTypes = <<>>
  /\ data = <<>>
  /\ compressedData = <<>>
  /\ itemSizes = <<>>
  /\ itemOffsets = <<>>
  /\ dataOffsets = <<>>
  /\ buffer = <<>>
  /\ wcount = <<>>
  /\ idx = 0
  /\ doc = Failed("none")
  /\ offset = 0
  /\ hist = <<>>
  /\ EditorIdle

(* lines 83-92 *)
itemAreaSize == SumSeq(itemSizes)
dataAreaSize == SumSeq([i \in 1..Len(compressedData) |-> Len(compressedData[i])])
itemTypesSize == Len(itemTypes) * ITEMTYPE_SIZE
itemOffsetsSize == Len(items) * 4
dataOffsetsSize == Len(compressedData) * 4
dataSizesSize == Len(compressedData) * 4
headerAndMetadataSize ==
  HEADER_SIZE + itemTypesSize + itemOffsetsSize + dataOffsetsSize + dataSizesSize
totalSize == headerAndMetadataSize + itemAreaSize + dataAreaSize

(* a size field that counts from after the version field instead of from *)
(* after itself                                                            *)
HeaderSizeField_FromVersion == totalSize - 8

(* the values of the header's size and swaplen fields, lines 116-117 *)
HeaderSizeField == totalSize - 16
HeaderSwapLenField == headerAndMetadataSize + itemAreaSize - 16

(* stores bytes at byte offset off of buf (all of them in range) *)
Store(buf, off, bytes) ==
  [k \in 1..Len(buf) |->
     IF k > off /\ k <= off + Len(bytes) THEN bytes[k - off] ELSE buf[k]]

Count(wc, off, n) ==
  [k \in 1..Len(wc) |-> IF k > off /\ k <= off + n THEN wc[k] + 1 ELSE wc[k]]

(* line 15 *)
Prepare ==
  /\ pc = "start"
  /\ items' = PrepareItems(mapItems)
  /\ itemTypes' = BuildItemTypes(PrepareItems(mapItems))
  /\ mapItems' = InputAfterPrepare(mapItems)
  /\ pc' = "data"
  /\ UNCHANGED <<data, compressedData, itemSizes, itemOffsets,
                 dataOffsets, buffer, wcount, idx, doc, offset, hist, edVars>>

(* lines 17-56 *)
BuildData ==
  /\ pc = "data"
  /\ data' = BuildImageData(items) \o BuildLayerData(items)
  /\ compressedData' = [i \in 1..Len(data') |-> Deflate(data'[i])]
  /\ pc' = "layout"
  /\ UNCHANGED <<mapItems, items, itemTypes, itemSizes, itemOffsets,
                 dataOffsets, buffer, wcount, idx, doc, offset, hist, edVars>>

(* lines 58-68: currentItemOffset += size *)
ItemSizes(its) == [i \in 1..Len(its) |-> calculateItemDataSize(its[i]) * 4]
ItemOffsets(sizes) == RunningSum(sizes)

(* data offsets that advance by the uncompressed length of each block *)
DataOffsets_Uncompressed(blocks) ==
  RunningSum([i \in 1..Len(blocks) |-> Len(Inflate(blocks[i]))])

(* lines 73-79: currentDataOffset += data.length *)
DataOffsets(blocks) == RunningSum([i \in 1..Len(blocks) |-> Len(blocks[i])])

Layout ==
  /\ pc = "layout"
  /\ itemSizes' = ItemSizes(items)
  /\ itemOffsets' = ItemOffsets(ItemSizes(items))
  /\ dataOffsets' = DataOffsets(compressedData)
  /\ pc' = "header"
  /\ UNCHANGED <<mapItems, items, itemTypes, data, compressedData,
                 buffer, wcount, idx, doc, offset, hist, edVars>>

(* lines 105-122: new ArrayBuffer(totalSize), signature and header *)
HeaderBytes ==
  <<68, 65, 84, 65>>
    \o WordsBytes(<<4, HeaderSizeField, HeaderSwapLenField, Len(itemTypes),
                    Len(items), Len(compressedData), itemAreaSize, dataAreaSize>>)

WriteHeader ==
  /\ pc = "header"
  /\ buffer' = Store(Zeros(totalSize), 0, HeaderBytes)
  /\ wcount' = Count(Zeros(totalSize), 0, HEADER_SIZE)
  /\ pc' = "tables"
  /\ UNCHANGED <<mapItems, items, itemTypes, data, compressedData,
                 itemSizes, itemOffsets, dataOffsets, idx, doc, offset, hist, edVars>>

(* tables whose last one holds the compressed lengths *)
TableWords_CompressedSizes ==
  Concat([k \in 1..Len(itemTypes) |->
            <<itemTypes[k].typeId, itemTypes[k].start, itemTypes[k].num>>])
    \o itemOffsets
    \o dataOffsets
    \o [i \in 1..Len(compressedData) |-> Len(compressedData[i])]

(* lines 126-155: item types, item offsets, data offsets, data sizes *)
TableWords ==
  Concat([k \in 1..Len(itemTypes) |->
            <<itemTypes[k].typeId, itemTypes[k].start, itemTypes[k].num>>])
    \o itemOffsets
    \o dataOffsets
    \o [i \in 1..Len(data) |-> Len(data[i])]

WriteTables ==
  /\ pc = "tables"
  /\ buffer' = Store(buffer, HEADER_SIZE, WordsBytes(TableWords))
  /\ wcount' = Count(wcount, HEADER_SIZE, 4 * Len(TableWords))
  /\ pc' = "items"
  /\ idx' = 0
  /\ UNCHANGED <<mapItems, items, itemTypes, data, compressedData,
                 itemSizes, itemOffsets, dataOffsets, doc, offset, hist, edVars>>

(* line 160 *)
itemsStartOffset == headerAndMetadataSize

(* the value of the record's size field, line 167 *)
SizeField(size) == size \div 4

(* lines 161-296, one iteration: the words stored from itemOffset on *)
RecordWords(its, sizes, index) ==
  <<its[index + 1].typeAndId, SizeField(sizes[index + 1])>> \o PayloadWords(its, index)

(* DataView.setInt32 throws a RangeError on the first word that does not   *)
(* fit; the stores before it have been done.                               *)
WriteItem ==
  /\ pc = "items"
  /\ idx < Len(items)
  /\ LET itemOffset == itemsStartOffset + itemOffsets[idx + 1]
         ws == RecordWords(items, itemSizes, idx)
         fit == Max(0, Min(Len(ws), (Len(buffer) - itemOffset) \div 4))
     IN /\ buffer' = Store(buffer, itemOffset, WordsBytes(SubSeq(ws, 1, fit)))
        /\ wcount' = Count(wcount, itemOffset, 4 * fit)
        /\ IF fit < Len(ws)
           THEN pc' = "threw" /\ idx' = idx
           ELSE IF idx + 1 < Len(items)
           THEN pc' = "items" /\ idx' = idx + 1
           ELSE /\ pc' = IF Len(compressedData) = 0 THEN "done" ELSE "blocks"
                /\ idx' = 0
  /\ UNCHANGED <<mapItems, items, itemTypes, data, compressedData,
                 itemSizes, itemOffsets, dataOffsets, doc, offset, hist, edVars>>

(* line 302 *)
dataStartOffset == itemsStartOffset + itemAreaSize

(* lines 303-307, one iteration *)
WriteData ==
  /\ pc = "blocks"
  /\ idx < Len(compressedData)
  /\ LET dataOffset == dataStartOffset + dataOffsets[idx + 1]
     IN /\ buffer' = Store(buffer, dataOffset, compressedData[idx + 1])
        /\ wcount' = Count(wcount, dataOffset, Len(compressedData[idx + 1]))
  /\ IF idx + 1 < Len(compressedData)
     THEN pc' = "blocks" /\ idx' = idx + 1
     ELSE pc' = "done" /\ idx' = 0
  /\ UNCHANGED <<mapItems, items, itemTypes, data, compressedData,
                 itemSizes, itemOffsets, dataOffsets, doc, offset, hist, edVars>>

(* new MapReader(buffer).read() on the exported buffer *)
Read ==
  /\ pc = "done"
  /\ doc' = MapReaderRead(buffer)
  /\ pc' = "read"
  /\ UNCHANGED <<mapItems, items, itemTypes, data, compressedData,
                 itemSizes, itemOffsets, dataOffsets, buffer, wcount, idx, offset, hist, edVars>>

Next ==
  \/ Prepare
  \/ BuildData
  \/ Layout
  \/ WriteHeader
  \/ WriteTables
  \/ WriteItem
  \/ WriteData
  \/ Read

Spec == Init /\ [][Next]_vars

(* ---------------------------------------------------------------------- *)
(* exportMap on documents of one tile layer, alone or after an image: the  *)
(* layer is width x height with width, height <= MaxDim, its cell k has    *)
(* flags (f + 85 * k) % 256 for every byte f, and ids, skips and reserved  *)
(* bytes that differ from cell to cell.                                    *)
(* ---------------------------------------------------------------------- *)
MaxDim == 2

ByteValues == 0..255

TileLayer(w, h, f) ==
  [MkItem(MkTypeAndId(LAYER, 0), "tiles") EXCEPT
     !.width = w, !.height = h, !.ltype = TILES, !.flags = 0,
     !.color = <<255, 255, 255, 255>>, !.image = -1, !.name = <<84>>,
     !.tileData = [k \in 1..(w * h) |->
                     <<(255 - 3 * (k - 1)) % 256, (f + 85 * (k - 1)) % 256,
                       k - 1, (7 * k) % 256>>]]

TileInputs ==
  UNION {{<<TileLayer(w, h, f)>>, <<ImageA, TileLayer(w, h, f)>>} :
           w \in 1..MaxDim, h \in 1..MaxDim, f \in ByteValues}

TileInit ==
  /\ mapItems \in TileInputs
  /\ pc = "start"
  /\ items = <<>>
  /\ itemTypes = <<>>
  /\ data = <<>>
  /\ compressedData = <<>>
  /\ itemSizes = <<>>
  /\ itemOffsets = <<>>
  /\ dataOffsets = <<>>
  /\ buffer = <<>>
  /\ wcount = <<>>
  /\ idx = 0
  /\ doc = Failed("none")
  /\ offset = 0
  /\ hist = <<>>
  /\ EditorIdle

TileSpec == TileInit /\ [][Next]_vars

(* ---------------------------------------------------------------------- *)
(* exportMap on documents that hold an image and one item without parsed   *)
(* whose typeAndId is any of a range of 32-bit values: high halves around  *)
(* 0, around the sign bit and at both ends, low halves 0, 1 and 0xFFFF.    *)
(* ---------------------------------------------------------------------- *)
HighHalves == {-32768, -32767, -2, -1, 0, 1, 5, 6, 7, 32767}

LowHalves == {0, 1, 65535}

TypeAndIdValues == {h * 65536 + l : h \in HighHalves, l \in LowHalves}

TypeInputs == {<<ImageA, MkItem(v, "none")>> : v \in TypeAndIdValues}

TypeInit ==
  /\ mapItems \in TypeInputs
  /\ pc = "start"
  /\ items = <<>>
  /\ itemTypes = <<>>
  /\ data = <<>>
  /\ compressedData = <<>>
  /\ itemSizes = <<>>
  /\ itemOffsets = <<>>
  /\ dataOffsets = <<>>
  /\ buffer = <<>>
  /\ wcount = <<>>
  /\ idx = 0
  /\ doc = Failed("none")
  /\ offset = 0
  /\ hist = <<>>
  /\ EditorIdle

TypeSpec == TypeInit /\ [][Next]_vars

(* ====================================================================== *)
(* MapReader.read, step by step, on any buffer                             *)
(* (src/src/map/MapReader.ts:13-124).  pc is the statement of read() about *)
(* to run; doc holds the locals read so far, and on a throw only the       *)
(* error.                                                                  *)
(* ====================================================================== *)
MaxRdItems == 2
MaxRdData == 2

(* ---------------------------------------------------------------------- *)
(* Buffers given to the reader: a container with n items (item i of type   *)
(* i, a one-word payload) and m data blocks of 3 bytes, under each         *)
(* signature and version, cut at every length.                             *)
(* ---------------------------------------------------------------------- *)
RdSignatures ==
  {<<68, 65, 84, 65>>, <<65, 84, 65, 68>>, <<68, 65, 84, 66>>, <<0, 0, 0, 0>>}

RdVersions == {3, 4, 5}

RdBuffer(sig, version, n, m) ==
  LET tables == Concat([i \in 1..n |-> <<i, i - 1, 1>>])
                  \o [i \in 1..n |-> 12 * (i - 1)]
                  \o [j \in 1..m |-> 3 * (j - 1)]
                  \o (IF version = 4 THEN [j \in 1..m |-> 16] ELSE <<>>)
      recs == Concat([i \in 1..n |-> <<MkTypeAndId(i, 0), 4, 6 + i>>])
      blocks == Concat([j \in 1..m |-> <<j, j, j>>])
      total == HEADER_SIZE + 4 * Len(tables) + 4 * Len(recs) + Len(blocks)
  IN sig
       \o WordsBytes(<<version, total - 16, total - 16 - 3 * m, n, n, m, 12 * n, 3 * m>>)
       \o WordsBytes(tables) \o WordsBytes(recs) \o blocks

RdInputs ==
  UNION {{SubSeq(b, 1, k) : k \in 0..Len(b)} :
           b \in {RdBuffer(sig, v, n, m) :
                    sig \in RdSignatures, v \in RdVersions,
                    n \in 0..MaxRdItems, m \in 0..MaxRdData}}

ReaderInit ==
  /\ buffer \in RdInputs
  /\ pc = "r_header"
  /\ offset = 0
  /\ hist = <<>>
  /\ EditorIdle
  /\ doc = [status |-> "reading"]
  /\ mapItems = <<>>
  /\ items = <<>>
  /\ itemTypes = <<>>
  /\ data = <<>>
  /\ compressedData = <<>>
  /\ itemSizes = <<>>
  /\ itemOffsets = <<>>
  /\ dataOffsets = <<>>
  /\ wcount = <<>>
  /\ idx = 0

RdUnchanged ==
  UNCHANGED <<mapItems, items, itemTypes, data, compressedData,
              itemSizes, itemOffsets, dataOffsets, buffer, wcount, idx,
              hist, edVars>>

(* a throw out of read(): no document, the cursor where it stood *)
RdThrow(why, off) ==
  /\ doc' = Failed(why)
  /\ offset' = off
  /\ pc' = "r_threw"

(* lines 14, 57-77: readHeader *)
RdHeader ==
  /\ pc = "r_header"
  /\ IF Len(buffer) < 4 THEN RdThrow("RangeError", 0)
     ELSE IF ~isValidSignature(SubSeq(buffer, 1, 4))
     THEN RdThrow("Invalid map file signature", 4)
     ELSE LET h == readOffsets(buffer, 4, 8) IN
          IF ~h.ok THEN RdThrow("RangeError", h.off)
          ELSE /\ doc' = [status |-> "reading", header |-> HeaderOf(h.vals)]
               /\ offset' = h.off
               /\ pc' = "r_types"
  /\ RdUnchanged

(* lines 17-20: numItemTypes readItemType calls *)
RdItemTypes ==
  /\ pc = "r_types"
  /\ LET r == readOffsets(buffer, offset, 3 * doc.header.numItemTypes) IN
     IF ~r.ok THEN RdThrow("RangeError", r.off)
     ELSE /\ doc' = [status |-> "reading", header |-> doc.header,
                     itemTypes |-> ItemTypesOf(r.vals)]
          /\ offset' = r.off
          /\ pc' = "r_itemOffsets"
  /\ RdUnchanged

(* line 23 *)
RdItemOffsets ==
  /\ pc = "r_itemOffsets"
  /\ LET r == readOffsets(buffer, offset, doc.header.numItems) IN
     IF ~r.ok THEN RdThrow("RangeError", r.off)
     ELSE /\ doc' = [status |-> "reading", header |-> doc.header,
                     itemTypes |-> doc.itemTypes, itemOffsets |-> r.vals]
          /\ offset' = r.off
          /\ pc' = "r_dataOffsets"
  /\ RdUnchanged

(* line 24 *)
RdDataOffsets ==
  /\ pc = "r_dataOffsets"
  /\ LET r == readOffsets(buffer, offset, doc.header.numData) IN
     IF ~r.ok THEN RdThrow("RangeError", r.off)
     ELSE /\ doc' = [status |-> "reading", header |-> doc.header,
                     itemTypes |-> doc.itemTypes, itemOffsets |-> doc.itemOffsets,
                     dataOffsets |-> r.vals]
          /\ offset' = r.off
          /\ pc' = "r_dataSizes"
  /\ RdUnchanged

(* lines 27-28 *)
RdDataSizes ==
  /\ pc = "r_dataSizes"
  /\ LET r == IF HasDataSizes(doc.header.version)
              THEN readOffsets(buffer, offset, doc.header.numData)
              ELSE [ok |-> TRUE, off |-> offset, vals |-> <<>>]
     IN IF ~r.ok THEN RdThrow("RangeError", r.off)
        ELSE /\ doc' = [status |-> "reading", header |-> doc.header,
                        itemTypes |-> doc.itemTypes, itemOffsets |-> doc.itemOffsets,
                        dataOffsets |-> doc.dataOffsets,
                        hasDataSizes |-> HasDataSizes(doc.header.version),
                        dataSizes |-> r.vals]
             /\ offset' = r.off
             /\ pc' = "r_items"
  /\ RdUnchanged

(* lines 31-34: numItems readItem calls *)
RdItems ==
  /\ pc = "r_items"
  /\ LET r == readItems(buffer, offset, doc.header.numItems) IN
     IF ~r.ok THEN RdThrow("RangeError", r.off)
     ELSE /\ doc' = [status |-> "reading", header |-> doc.header,
                     itemTypes |-> doc.itemTypes, itemOffsets |-> doc.itemOffsets,
                     dataOffsets |-> doc.dataOffsets,
                     hasDataSizes |-> doc.hasDataSizes,
                     dataSizes |-> doc.dataSizes, items |-> r.vals]
          /\ offset' = r.off
          /\ pc' = "r_data"
  /\ RdUnchanged

(* lines 37-54: the data blocks, and the return *)
RdData ==
  /\ pc = "r_data"
  /\ LET blocks == readBlocks(buffer, offset, 0, doc.dataOffsets, doc.header.dataSize)
         sizes == [i \in 1..Len(doc.dataOffsets) |->
                     IF i < Len(doc.dataOffsets)
                     THEN doc.dataOffsets[i + 1] - doc.dataOffsets[i]
                     ELSE doc.header.dataSize - doc.dataOffsets[i]]
     IN /\ doc' = [status |-> "ok", header |-> doc.header,
                   itemTypes |-> doc.itemTypes, itemOffsets |-> doc.itemOffsets,
                   dataOffsets |-> doc.dataOffsets,
                   hasDataSizes |-> doc.hasDataSizes,
                   dataSizes |-> doc.dataSizes, items |-> doc.items,
                   data |-> blocks]
        /\ offset' = offset + SumSeq(sizes)
        /\ pc' = "r_done"
  /\ RdUnchanged

ReaderNext ==
  \/ RdHeader
  \/ RdItemTypes
  \/ RdItemOffsets
  \/ RdDataOffsets
  \/ RdDataSizes
  \/ RdItems
  \/ RdData

ReaderSpec == ReaderInit /\ [][ReaderNext]_vars

(* ====================================================================== *)
(* Properties                                                              *)
(* ====================================================================== *)
(* exportMap returned its buffer *)
Returned == pc \in {"done", "read"}

(* mapCopy exists *)
Prepared == pc # "start"

(* the fields of the header as stored in the returned buffer *)
BufSize == GetInt32(buffer, 8)
BufSwapLen == GetInt32(buffer, 12)
BufNumItemTypes == GetInt32(buffer, 16)
BufNumItems == GetInt32(buffer, 20)
BufNumData == GetInt32(buffer, 24)
BufItemSize == GetInt32(buffer, 28)
BufDataSize == GetInt32(buffer, 32)

(* entry i (0-based) of the item-offset and data-offset tables of the buffer *)
BufItemOffset(i) == GetInt32(buffer, HEADER_SIZE + 12 * BufNumItemTypes + 4 * i)
BufDataOffset(i) ==
  GetInt32(buffer, HEADER_SIZE + 12 * BufNumItemTypes + 4 * BufNumItems + 4 * i)

(* byte length of the payload serialized for item i (0-based) *)
PayloadByteLength(i) == 4 * Len(PayloadWords(items, i))

(* position of item i (0-based) within the items of its type *)
RankInType(its, i) ==
  Cardinality({j \in 1..i : TypeOf(its[j].typeAndId) = TypeOf(its[i + 1].typeAndId)})

CountType(its, t) == Cardinality({j \in 1..Len(its) : TypeOf(its[j].typeAndId) = t})

(* a well-formed editor document: images, groups and tile layers grouped   *)
(* by type, every tile layer with width*height tiles                       *)
WellFormedDoc(input) ==
  /\ \A i \in 1..Len(input) :
       /\ TypeOf(input[i].typeAndId) \in {IMAGE, GROUP, LAYER}
       /\ input[i].kind = "tiles"
            => Len(input[i].tileData) = input[i].width * input[i].height
  /\ \A i \in 1..Len(input) : \A j \in i..Len(input) :
       TypeOf(input[i].typeAndId) <= TypeOf(input[j].typeAndId)

(* C1: reading back an exported well-formed document returns its items     *)
(* (same type ids in the same order, each payload the fields serialized    *)
(* for the item) and its data blocks (each inflating to the block's        *)
(* content).                                                               *)
C1_RoundTrip ==
  (pc = "read" /\ WellFormedDoc(mapItems)) =>
    /\ doc.status = "ok"
    /\ Len(doc.items) = Len(items)
    /\ \A i \in 1..Len(items) :
         /\ TypeOf(doc.items[i].typeAndId) = TypeOf(items[i].typeAndId)
         /\ doc.items[i].data = WordsBytes(PayloadWords(items, i - 1))
    /\ Len(doc.data) = Len(data)
    /\ \A j \in 1..Len(data) : Inflate(doc.data[j]) = data[j]

(* C2: the item-offset table of the returned buffer starts at 0, advances  *)
(* by 8 + payload byte length per item, and ends at the header's itemSize. *)
C2_ItemOffsetsRunningSum ==
  Returned =>
    /\ BufItemOffset(0) = 0
    /\ \A i \in 0..(Len(items) - 2) :
         BufItemOffset(i + 1) = BufItemOffset(i) + ITEM_SIZE + PayloadByteLength(i)
    /\ BufItemOffset(Len(items) - 1) + ITEM_SIZE + PayloadByteLength(Len(items) - 1)
         = BufItemSize

(* C3: the size field written for every item is the byte length of the     *)
(* payload serialized for it, which is the size calculateItemDataSize      *)
(* computed.                                                               *)
C3_SizeIsPayloadLength ==
  Returned =>
    \A i \in 0..(Len(items) - 1) :
      /\ RecordWords(items, itemSizes, i)[2] = PayloadByteLength(i)
      /\ calculateItemDataSize(items[i + 1]) * 4 = PayloadByteLength(i)

(* C4: exportMap never raises an out-of-range write error, and the bytes   *)
(* it stores fill the buffer exactly once each.                            *)
C4_WritesInRange ==
  /\ pc # "threw"
  /\ Returned => \A k \in 1..Len(buffer) : wcount[k] = 1

C6_DataOffsetsRunningSum ==
  Returned =>
    LET n == Len(compressedData)
        dataStart == Len(buffer) - BufDataSize
    IN /\ BufNumData = n
       /\ n > 0 => BufDataOffset(0) = 0
       /\ \A i \in 0..(n - 2) :
            /\ BufDataOffset(i) <= BufDataOffset(i + 1)
            /\ BufDataOffset(i + 1) = BufDataOffset(i) + Len(compressedData[i + 1])
       /\ n > 0 => BufDataOffset(n - 1) + Len(compressedData[n]) = BufDataSize
       /\ BufDataSize = SumSeq([i \in 1..n |-> Len(compressedData[i])])
       /\ \A i \in 0..(n - 1) :
            SubSeq(buffer, dataStart + BufDataOffset(i) + 1,
                   dataStart + BufDataOffset(i) + Len(compressedData[i + 1]))
              = compressedData[i + 1]

C6_Witness ==
  /\ pc = "done"
  /\ Len(compressedData) >= 3
  /\ BufDataOffset(2) > BufDataOffset(1)
  /\ BufDataOffset(1) > 0

(* C7: the itemTypes table of prepareMapData is sorted ascending by        *)
(* typeId, every entry is a contiguous run of items of that type, runs do  *)
(* not overlap, and the counts sum to the number of items.                 *)
C7_ItemTypesPartition ==
  Prepared =>
    /\ \A k \in 1..(Len(itemTypes) - 1) : itemTypes[k].typeId < itemTypes[k + 1].typeId
    /\ \A k \in 1..Len(itemTypes) :
         \A i \in itemTypes[k].start..(itemTypes[k].start + itemTypes[k].num - 1) :
           /\ i + 1 \in 1..Len(items)
           /\ TypeOf(items[i + 1].typeAndId) = itemTypes[k].typeId
    /\ \A k \in 1..Len(itemTypes) : \A l \in 1..Len(itemTypes) :
         k # l =>
           \/ itemTypes[k].start + itemTypes[k].num <= itemTypes[l].start
           \/ itemTypes[l].start + itemTypes[l].num <= itemTypes[k].start
    /\ SumSeq([k \in 1..Len(itemTypes) |-> itemTypes[k].num]) = Len(items)

(* C8: the exported item list is in canonical order: type ids are          *)
(* non-decreasing along it.                                                *)
C8_CanonicalOrder ==
  Prepared =>
    \A i \in 1..Len(items) : \A j \in i..Len(items) :
      TypeOf(items[i].typeAndId) <= TypeOf(items[j].typeAndId)

(* C9: the exported item list holds exactly one Version, one Info and one  *)
(* Envpoint item, and the Envpoint item is last.                           *)
C9_MandatoryItemsOnce ==
  Prepared =>
    /\ CountType(items, VERSION) = 1
    /\ CountType(items, INFO) = 1
    /\ CountType(items, ENVPOINT) = 1
    /\ TypeOf(items[Len(items)].typeAndId) = ENVPOINT

(* C10: the instanceId written for every item (low 16 bits of the          *)
(* typeAndId stored in its record) is the item's position within its type  *)
(* run.                                                                    *)
C10_InstanceIdIsRank ==
  Returned =>
    \A i \in 0..(Len(items) - 1) :
      IdOf(RecordWords(items, itemSizes, i)[1]) = RankInType(items, i)

(* ---------------------------------------------------------------------- *)
(* Properties of the exported buffer, continued (Spec, TileSpec)           *)
(* ---------------------------------------------------------------------- *)
(* entry i (0-based) of the uncompressed-length table of the buffer *)
BufDataLength(i) ==
  GetInt32(buffer, HEADER_SIZE + 12 * BufNumItemTypes + 4 * BufNumItems
                     + 4 * BufNumData + 4 * i)

(* where the item records and the data area start, by the buffer's header *)
BufItemsStart == HEADER_SIZE + 12 * BufNumItemTypes + 4 * BufNumItems + 8 * BufNumData
BufDataStart == Len(buffer) - BufDataSize

(* data block i (0-based) of the buffer, by the data-offset table *)
BufBlock(i) ==
  LET from == BufDataStart + BufDataOffset(i)
      to == IF i + 1 < BufNumData THEN BufDataStart + BufDataOffset(i + 1)
            ELSE Len(buffer)
  IN SubSeq(buffer, from + 1, to)

(* word k (0-based) of the payload of item i (0-based) of the buffer *)
BufPayloadWord(i, k) == GetInt32(buffer, BufItemsStart + BufItemOffset(i) + ITEM_SIZE + 4 * k)

(* entry k (0-based) of the item-type table of the buffer *)
BufItemType(k) ==
  [typeId |-> GetInt32(buffer, HEADER_SIZE + 12 * k),
   start |-> GetInt32(buffer, HEADER_SIZE + 12 * k + 4),
   num |-> GetInt32(buffer, HEADER_SIZE + 12 * k + 8)]

(* C16: the returned buffer has version 4, numData is the number of data   *)
(* blocks, entry i of the uncompressed-length table is the length of block *)
(* i before compression, and the block stored in the buffer inflates to    *)
(* that many bytes.                                                        *)
C16_DataSizesTable ==
  Returned =>
    /\ GetInt32(buffer, 4) = 4
    /\ BufNumData = Len(data)
    /\ \A i \in 0..(Len(data) - 1) :
         /\ BufDataLength(i) = Len(data[i + 1])
         /\ Len(Inflate(BufBlock(i))) = BufDataLength(i)

C16_Witness ==
  /\ pc = "done"
  /\ BufNumData >= 2
  /\ BufDataLength(0) # BufDataLength(1)
  /\ BufDataLength(1) = 16

(* C17: for every tile layer whose tileData has width*height cells the     *)
(* block built for it has width*height*4 bytes, bytes 4i..4i+3 being the   *)
(* id, flags, skip and reserved of cell i, the flags byte unchanged for    *)
(* every value 0..255.                                                     *)
C17_TileGridBytes ==
  pc \notin {"start", "data"} =>
    LET ix == LayerIdx(items, 1)
        nImages == Len(ImageIdx(items, 1))
    IN \A j \in 1..Len(ix) :
         LET layer == items[ix[j]]
             block == data[nImages + j]
         IN Len(layer.tileData) = layer.width * layer.height =>
              /\ Len(block) = layer.width * layer.height * 4
              /\ \A i \in 0..(Len(layer.tileData) - 1) :
                   SubSeq(block, 4 * i + 1, 4 * i + 4) = layer.tileData[i + 1]

C17_Witness ==
  /\ pc = "done"
  /\ Len(data) = 2
  /\ Len(data[2]) = 16
  /\ data[2][2] = 255
  /\ data[2][6] = 84

(* C18: the data index stored in the payload of every tile layer item of   *)
(* the returned buffer is the index of the block that holds the layer's    *)
(* own grid; for a single 2x2 all-zero layer that block inflates to 16     *)
(* zero bytes.                                                             *)
C18_LayerDataIndex ==
  Returned =>
    LET ix == LayerIdx(items, 1)
        nImages == Len(ImageIdx(items, 1))
    IN /\ \A j \in 1..Len(ix) : BufPayloadWord(ix[j] - 1, 13) = nImages + j - 1
       /\ mapItems = <<LayerA>> =>
            /\ BufPayloadWord(2, 13) \in 0..(BufNumData - 1)
            /\ Inflate(BufBlock(BufPayloadWord(2, 13))) = Zeros(16)

(* C19: in the returned buffer the payload of the Info item (item 1) is    *)
(* the 6 words 1, -1, -1, -1, -1, -1.                                      *)
C19_InfoPayload ==
  Returned =>
    /\ TypeOf(GetInt32(buffer, BufItemsStart + BufItemOffset(1))) = INFO
    /\ [k \in 1..6 |-> BufPayloadWord(1, k - 1)] = <<1, -1, -1, -1, -1, -1>>

(* C20: the item-type table of the returned buffer has one entry for every *)
(* type id present among the exported items and no other, each with the    *)
(* number of exported items of the type as its count; for the document of  *)
(* 1 image, 1 group, 2 tile layers and 1 envpoint it has the 6 entries     *)
(* Version, Info, Image, Group, Layer, Envpoint, the Layer count being 2.  *)
C20_ItemTypeTable ==
  Returned =>
    LET n == BufNumItemTypes IN
    /\ \A k \in 0..(n - 1) : \A l \in 0..(n - 1) :
         k # l => BufItemType(k).typeId # BufItemType(l).typeId
    /\ {BufItemType(k).typeId : k \in 0..(n - 1)}
         = {TypeOf(items[i].typeAndId) : i \in 1..Len(items)}
    /\ \A k \in 0..(n - 1) :
         BufItemType(k).num = CountType(items, BufItemType(k).typeId)
    /\ mapItems = ScenarioC =>
         /\ [k \in 1..n |-> BufItemType(k - 1).typeId]
              = <<VERSION, INFO, IMAGE, GROUP, LAYER, ENVPOINT>>
         /\ BufItemType(4).num = 2

C20_Witness ==
  /\ pc = "done"
  /\ mapItems = ScenarioC
  /\ BufNumItemTypes = 6

(* ---------------------------------------------------------------------- *)
(* Properties of MapReader.read (ReaderSpec)                               *)
(* ---------------------------------------------------------------------- *)
(* read() has ended, by return or by throw *)
RdEnded == pc \in {"r_done", "r_threw"}

(* n words of the buffer from byte offset off *)
BufWords(off, n) == [i \in 1..n |-> GetInt32(buffer, off + 4 * (i - 1))]

BufVersion == GetInt32(buffer, 4)

(* where the tables end, by the counts and the version stored in the buffer *)
BufTablesEnd ==
  HEADER_SIZE + 12 * BufNumItemTypes + 4 * BufNumItems + 4 * BufNumData
    + (IF BufVersion = 4 THEN 4 * BufNumData ELSE 0)

BufSigKnown ==
  SubSeq(buffer, 1, 4) \in {<<68, 65, 84, 65>>, <<65, 84, 65, 68>>}

(* C11: a buffer that starts with 'DATA' or 'ATAD' passes the signature    *)
(* test; with any other first 4 bytes read throws the invalid-signature    *)
(* error with the cursor just after the signature, no header field read    *)
(* and no document.                                                        *)
C11_Signature ==
  (pc # "r_header" /\ Len(buffer) >= 4) =>
    IF BufSigKnown
    THEN doc.status # "Invalid map file signature"
    ELSE /\ pc = "r_threw"
         /\ doc = Failed("Invalid map file signature")
         /\ offset = 4

C11_Witness ==
  /\ pc = "r_done"
  /\ SubSeq(buffer, 1, 4) = <<65, 84, 65, 68>>
  /\ doc.status = "ok"
  /\ Len(doc.items) >= 1

(* C12: read ends with an unsupported-version error and no document when   *)
(* the header's version field is neither 3 nor 4.                          *)
C12_UnsupportedVersion ==
  (RdEnded /\ Len(buffer) >= 8 /\ BufSigKnown /\ BufVersion \notin {3, 4}) =>
    /\ pc = "r_threw"
    /\ doc.status = "Unsupported version"

(* C13: after the header read consumes the item-type triples, then the     *)
(* item offsets, then the data offsets, then the uncompressed lengths only *)
(* when the version is 4; for version 3 there is no such table and the     *)
(* item records are read from right after the data-offset table.           *)
C13_ReadOrder ==
  LET tyEnd == HEADER_SIZE + 12 * BufNumItemTypes
      ioEnd == tyEnd + 4 * BufNumItems
      doEnd == ioEnd + 4 * BufNumData
  IN /\ pc = "r_types" => offset = HEADER_SIZE
     /\ pc = "r_itemOffsets" =>
          /\ offset = tyEnd
          /\ doc.itemTypes = ItemTypesOf(BufWords(HEADER_SIZE, 3 * BufNumItemTypes))
     /\ pc = "r_dataOffsets" =>
          /\ offset = ioEnd
          /\ doc.itemOffsets = BufWords(tyEnd, BufNumItems)
     /\ pc = "r_dataSizes" =>
          /\ offset = doEnd
          /\ doc.dataOffsets = BufWords(ioEnd, BufNumData)
     /\ pc = "r_items" =>
          IF BufVersion = 4
          THEN /\ offset = doEnd + 4 * BufNumData
               /\ doc.hasDataSizes
               /\ doc.dataSizes = BufWords(doEnd, BufNumData)
          ELSE /\ offset = doEnd
               /\ ~doc.hasDataSizes
               /\ doc.dataSizes = <<>>
     /\ (pc \in {"r_data", "r_done"} /\ BufNumItems >= 1) =>
          /\ doc.items[1].typeAndId = GetInt32(buffer, BufTablesEnd)
          /\ doc.items[1].size = GetInt32(buffer, BufTablesEnd + 4)

C13_Witness ==
  /\ pc = "r_done"
  /\ BufVersion = 3
  /\ BufNumData >= 1
  /\ BufNumItems >= 1
  /\ ~doc.hasDataSizes

(* C14: on a buffer that ends inside the header or inside the tables read  *)
(* never returns a document; it throws a RangeError (the out-of-bounds     *)
(* error), the signature error coming first when the 4 bytes present are   *)
(* no signature.                                                           *)
C14_TruncatedThrows ==
  (RdEnded /\ (Len(buffer) < HEADER_SIZE \/ Len(buffer) < BufTablesEnd)) =>
    /\ pc = "r_threw"
    /\ doc = IF Len(buffer) >= 4 /\ ~BufSigKnown
             THEN Failed("Invalid map file signature")
             ELSE Failed("RangeError")

C14_Witness ==
  /\ pc = "r_threw"
  /\ doc.status = "RangeError"
  /\ Len(buffer) >= HEADER_SIZE + 4
  /\ Len(buffer) < BufTablesEnd
  /\ offset > HEADER_SIZE

(* C15: every item of a returned document has as many bytes as its size    *)
(* field declares and every data block as many as its derived length.      *)
C15_AllOrNothing ==
  pc = "r_done" =>
    /\ \A i \in 1..Len(doc.items) : Len(doc.items[i].data) = doc.items[i].size
    /\ \A j \in 1..Len(doc.data) :
         Len(doc.data[j]) =
           IF j < Len(doc.dataOffsets)
           THEN doc.dataOffsets[j + 1] - doc.dataOffsets[j]
           ELSE doc.header.dataSize - doc.dataOffsets[j]

(* the step-by-step reader and MapReaderRead agree *)
RdAgrees == RdEnded => doc = MapReaderRead(buffer)

(* ---------------------------------------------------------------------- *)
(* Properties of the payloads exportMap writes and of their decoding       *)
(* ---------------------------------------------------------------------- *)
(* positions (0-based) of the items of type t *)
IndicesOfType(its, t) == {i \in 0..(Len(its) - 1) : TypeOf(its[i + 1].typeAndId) = t}

(* C22: every data block read has the byte length dataOffsets[i+1] -       *)
(* dataOffsets[i], the last one header.dataSize - dataOffsets[i]; when the *)
(* offsets start at 0 and do not decrease the lengths sum to               *)
(* header.dataSize.                                                        *)
C22_BlockLengths ==
  pc = "r_done" =>
    LET n == Len(doc.dataOffsets)
        want == [j \in 1..n |->
                   IF j < n THEN doc.dataOffsets[j + 1] - doc.dataOffsets[j]
                   ELSE doc.header.dataSize - doc.dataOffsets[j]]
    IN /\ Len(doc.data) = n
       /\ \A j \in 1..n : Len(doc.data[j]) = want[j]
       /\ (n >= 1 /\ doc.dataOffsets[1] = 0
             /\ \A j \in 1..(n - 1) : doc.dataOffsets[j] <= doc.dataOffsets[j + 1])
            => SumSeq([j \in 1..n |-> Len(doc.data[j])]) = doc.header.dataSize

(* C25: decoding the payload exportMap writes for a tile layer chooses the *)
(* sub-codec by the layer's type: the tile codec for Tiles (2) and Game    *)
(* (1), the quad codec for Quads (3).                                      *)
C25_LayerSubCodec ==
  Returned =>
    \A i \in IndicesOfType(items, LAYER) :
      items[i + 1].kind = "tiles" =>
        LET p == parseLayerItem(WordsBytes(PayloadWords(items, i)))
        IN /\ p.status = "ok"
           /\ p.type = items[i + 1].ltype
           /\ p.codec = IF items[i + 1].ltype \in {TILES, GAME} THEN "tiles"
                        ELSE IF items[i + 1].ltype = QUADS THEN "quads"
                        ELSE "none"

(* C26: decoding with parseGroupItem the payload exportMap writes for a    *)
(* group returns the group's eleven fields.                                *)
C26_GroupRoundTrip ==
  Returned =>
    \A i \in IndicesOfType(items, GROUP) :
      items[i + 1].kind = "group" =>
        LET p == parseGroupItem(WordsBytes(PayloadWords(items, i)))
        IN /\ p.status = "ok"
           /\ p.g = items[i + 1].g

(* C27: the payload exportMap writes for an image is version, width,       *)
(* height, the external flag (1 when external, else 0), the data index     *)
(* (-1 for an external image) and the index of the block that holds the    *)
(* image's name.                                                           *)
C27_ImagePayload ==
  Returned =>
    \A i \in IndicesOfType(items, IMAGE) :
      items[i + 1].kind = "image" =>
        LET w == PayloadWords(items, i)
            item == items[i + 1]
        IN /\ Len(w) = 6
           /\ w[2] = item.width
           /\ w[3] = item.height
           /\ w[4] = IF item.external THEN 1 ELSE 0
           /\ item.external => w[5] = -1
           /\ w[6] \in 0..(Len(data) - 1)
           /\ data[w[6] + 1] = Utf8(item.name) \o <<0>>

(* C28: every group written has a layer range inside the exported layers,  *)
(* and every exported layer lies in the range of some group.               *)
C28_GroupLayerRanges ==
  Returned =>
    LET groups == {i \in IndicesOfType(items, GROUP) : items[i + 1].kind = "group"}
        nLayers == Cardinality(IndicesOfType(items, LAYER))
        start(i) == PayloadWords(items, i)[6]
        num(i) == PayloadWords(items, i)[7]
    IN /\ \A i \in groups : 0 <= start(i) /\ start(i) + num(i) <= nLayers
       /\ \A k \in 0..(nLayers - 1) :
            \E i \in groups : start(i) <= k /\ k < start(i) + num(i)

(* C23: the type id derived from every 32-bit typeAndId is the unsigned    *)
(* value of its high 16 bits, in 0..65535 and never negative, and the      *)
(* instance id is its low 16 bits.                                         *)
C23_TypeIdUnsigned ==
  Prepared =>
    /\ \A i \in 1..Len(items) :
         /\ TypeOf(items[i].typeAndId) = (items[i].typeAndId \div 65536) % 65536
         /\ IdOf(items[i].typeAndId) = items[i].typeAndId % 65536
    /\ \A k \in 1..Len(itemTypes) : itemTypes[k].typeId \in 0..65535


(* ---------------------------------------------------------------------- *)
(* One caller exporting its documents again and again: each call runs     *)
(* exportMap to its end (a returned buffer or a throw) on one of the      *)
(* caller's documents, as that document is at the time of the call.       *)
(* ---------------------------------------------------------------------- *)
MaxCalls == 3

(* the caller's documents; the first and the third are two objects with   *)
(* equal contents, the last makes exportMap throw                         *)
CallDocs == << <<ImageA, LayerB>>, <<LayerA>>, <<ImageA, LayerB>>, <<>> >>

Finished(k) == hist[k].status # "running"

(* document n as it is now: as the last call made on it left it *)
HeldDoc(n) ==
  LET done == {k \in 1..Len(hist) : hist[k].arg = n /\ Finished(k)}
  IN IF done = {} THEN CallDocs[n]
     ELSE hist[CHOOSE k \in done : \A j \in done : j <= k].after

(* exportMap(mapData) is entered: every local of the call is new, the     *)
(* class has no field that is ever assigned                               *)
Call ==
  /\ pc = "idle"
  /\ Len(hist) < MaxCalls
  /\ \E n \in 1..Len(CallDocs) :
       /\ mapItems' = HeldDoc(n)
       /\ hist' = Append(hist, [arg |-> n, before |-> HeldDoc(n),
                                after |-> HeldDoc(n), status |-> "running",
                                out |-> <<>>])
  /\ pc' = "start"
  /\ items' = <<>>
  /\ itemTypes' = <<>>
  /\ data' = <<>>
  /\ compressedData' = <<>>
  /\ itemSizes' = <<>>
  /\ itemOffsets' = <<>>
  /\ dataOffsets' = <<>>
  /\ buffer' = <<>>
  /\ wcount' = <<>>
  /\ idx' = 0
  /\ UNCHANGED <<doc, offset, edVars>>

(* the call ends: `return buffer` (line 313) or a RangeError thrown by a  *)
(* DataView write                                                          *)
Return ==
  /\ pc \in {"done", "threw"}
  /\ hist # <<>>
  /\ ~Finished(Len(hist))
  /\ hist' = [hist EXCEPT ![Len(hist)] =
                [@ EXCEPT !.after = mapItems,
                          !.status = pc,
                          !.out = IF pc = "done" THEN buffer ELSE <<>>]]
  /\ pc' = "idle"
  /\ UNCHANGED <<mapItems, items, itemTypes, data, compressedData, itemSizes,
                 itemOffsets, dataOffsets, buffer, wcount, idx, doc, offset,
                 edVars>>

CallsInit ==
  /\ pc = "idle"
  /\ hist = <<>>
  /\ mapItems = <<>>
  /\ items = <<>>
  /\ itemTypes = <<>>
  /\ data = <<>>
  /\ compressedData = <<>>
  /\ itemSizes = <<>>
  /\ itemOffsets = <<>>
  /\ dataOffsets = <<>>
  /\ buffer = <<>>
  /\ wcount = <<>>
  /\ idx = 0
  /\ doc = Failed("none")
  /\ offset = 0
  /\ EditorIdle

CallsNext ==
  \/ Call
  \/ Prepare
  \/ BuildData
  \/ Layout
  \/ WriteHeader
  \/ WriteTables
  \/ WriteItem
  \/ WriteData
  \/ Return

CallsSpec == CallsInit /\ [][CallsNext]_vars

EdWidth == 2
EdHeight == 2
MaxLayers == 4

(* what an int32 operator or DataView.setInt32 makes of the property *)
ToInt32(opt) == IF opt = <<>> THEN 0 ELSE opt[1]

EmptyTile == <<0, 0, 0, 0>>

EdParsed(type, flags, image) ==
  [MkItem(0, "tiles") EXCEPT
     !.width = EdWidth, !.height = EdHeight, !.ltype = type, !.flags = flags,
     !.color = <<255, 255, 255, 255>>, !.image = image,
     !.tileData = [k \in 1..(EdWidth * EdHeight) |-> EmptyTile]]

(* the MapItem as exportMap reads it *)
AsItem(layer) == [layer.parsed EXCEPT !.typeAndId = ToInt32(layer.typeAndId)]

AsItems(ls) == [i \in 1..Len(ls) |-> AsItem(ls[i])]

createInitialLayer ==
  [uid |-> 0, typeAndId |-> <<MkTypeAndId(TILES, 0)>>,
   parsed |-> EdParsed(TILES, 0, -1)]

(* the items of createDefaultMap(): game, front, unhookable and background *)
(* layer, none with a typeAndId                                            *)
createDefaultMap ==
  << [uid |-> 0, typeAndId |-> <<>>, parsed |-> EdParsed(TILES, 1, -1)],
     [uid |-> 1, typeAndId |-> <<>>, parsed |-> EdParsed(TILES, 0, 0)],
     [uid |-> 2, typeAndId |-> <<>>, parsed |-> EdParsed(TILES, 0, 1)],
     [uid |-> 3, typeAndId |-> <<>>, parsed |-> EdParsed(TILES, 0, 2)] >>

(* a document opened in the editor: two tile layers as a reader of the     *)
(* format would number them                                                *)
LoadedLayers ==
  << [uid |-> 0, typeAndId |-> <<MkTypeAndId(LAYER, 0)>>,
      parsed |-> EdParsed(TILES, 1, -1)],
     [uid |-> 1, typeAndId |-> <<MkTypeAndId(LAYER, 1)>>,
      parsed |-> EdParsed(TILES, 0, 0)] >>

(* useState initialiser of layers *)
InitialLayersState(il) == IF Len(il) > 0 THEN il ELSE <<createInitialLayer>>

FirstFree(used) == CHOOSE n \in 0..Cardinality(used) :
                     n \notin used /\ \A k \in 0..(n - 1) : k \in used

createEmptyTileLayer(ls, type) ==
  [uid |-> FirstFree({ls[i].uid : i \in 1..Len(ls)}),
   typeAndId |-> <<MkTypeAndId(type, Len(ls))>>,
   parsed |-> EdParsed(type, 0, -1)]

(* newLayers.forEach((layer, i) => layer.typeAndId = (layer.parsed.type << 16) | i) *)
Renumber(ls) ==
  [i \in 1..Len(ls) |->
     [ls[i] EXCEPT !.typeAndId = <<MkTypeAndId(ls[i].parsed.ltype, i - 1)>>]]

(* splice(index, 1) and splice(index, 0, e), index counted from 0 *)
RemoveAt(ls, index) == SubSeq(ls, 1, index) \o SubSeq(ls, index + 2, Len(ls))
InsertAt(ls, index, e) == SubSeq(ls, 1, index) \o <<e>> \o SubSeq(ls, index + 1, Len(ls))

(* the layers.length that removeLayer reads: removeLayer is memoised with  *)
(* no dependencies, so it is the closure of the first render               *)
removeLayerSeenLength == Len(InitialLayersState(initialLayers))

(* MapEditorContent's `useEffect(() => setLayers(mapData.items), [])`, with *)
(* mapData = props.mapData || createDefaultMap()                            *)
MountEffect ==
  /\ pc = "ed_mounted"
  /\ layers' = IF initialLayers = <<>> THEN createDefaultMap ELSE initialLayers
  /\ pc' = "ed_ready"
  /\ UNCHANGED <<mapItems, items, itemTypes, data, compressedData, itemSizes,
                 itemOffsets, dataOffsets, buffer, wcount, idx, doc, offset,
                 hist, selectedLayer, initialLayers, paint>>

EdUnchanged ==
  UNCHANGED <<mapItems, pc, items, itemTypes, data, compressedData, itemSizes,
              itemOffsets, dataOffsets, buffer, wcount, idx, doc, offset,
              hist, initialLayers>>

addLayer ==
  /\ pc = "ed_ready"
  /\ Len(layers) < MaxLayers
  /\ \E type \in {TILES} :
       layers' = Append(layers, createEmptyTileLayer(layers, type))
  /\ selectedLayer' = Len(layers)
  /\ UNCHANGED paint
  /\ EdUnchanged

removeLayer ==
  /\ pc = "ed_ready"
  /\ \E index \in 0..(Len(layers) - 1) :
       IF removeLayerSeenLength <= 1
       THEN UNCHANGED <<layers, selectedLayer>>
       ELSE /\ layers' = Renumber(RemoveAt(layers, index))
            /\ selectedLayer' = IF selectedLayer >= index
                                THEN Max(0, selectedLayer - 1)
                                ELSE selectedLayer
  /\ UNCHANGED paint
  /\ EdUnchanged

moveLayer ==
  /\ pc = "ed_ready"
  /\ \E fromIndex, toIndex \in 0..(Len(layers) - 1) :
       /\ layers' = Renumber(InsertAt(RemoveAt(layers, fromIndex), toIndex,
                                      layers[fromIndex + 1]))
       /\ selectedLayer' =
            IF selectedLayer = fromIndex THEN toIndex
            ELSE IF selectedLayer > fromIndex /\ selectedLayer <= toIndex
                 THEN selectedLayer - 1
            ELSE IF selectedLayer < fromIndex /\ selectedLayer >= toIndex
                 THEN selectedLayer + 1
            ELSE selectedLayer
  /\ UNCHANGED paint
  /\ EdUnchanged

setSelectedLayer ==
  /\ pc = "ed_ready"
  /\ \E index \in 0..(Len(layers) - 1) : selectedLayer' = index
  /\ UNCHANGED <<layers, paint>>
  /\ EdUnchanged

(* LayerProvider mounted on its own (no initialLayers), or inside          *)
(* MapEditor without a document or with a loaded one                       *)
LayersInit ==
  /\ \/ pc = "ed_ready" /\ initialLayers = <<>>
     \/ pc = "ed_mounted" /\ initialLayers \in {<<>>, LoadedLayers}
  /\ layers = InitialLayersState(initialLayers)
  /\ selectedLayer = 0
  /\ paint = NoPaint
  /\ hist = <<>>
  /\ mapItems = <<>>
  /\ items = <<>>
  /\ itemTypes = <<>>
  /\ data = <<>>
  /\ compressedData = <<>>
  /\ itemSizes = <<>>
  /\ itemOffsets = <<>>
  /\ dataOffsets = <<>>
  /\ buffer = <<>>
  /\ wcount = <<>>
  /\ idx = 0
  /\ doc = Failed("none")
  /\ offset = 0

LayersNext ==
  \/ MountEffect
  \/ addLayer
  \/ removeLayer
  \/ moveLayer
  \/ setSelectedLayer

LayersSpec == LayersInit /\ [][LayersNext]_vars


(* C30: whatever addLayer, removeLayer, moveLayer and setSelectedLayer     *)
(* calls with in-range indices were made, the layer list is not empty and  *)
(* selectedLayer is an index into it                                       *)
C30_SelectionValid ==
  /\ layers # <<>>
  /\ selectedLayer >= 0
  /\ selectedLayer < Len(layers)

(* C29: every layer the editor holds has item type Layer (5) in the high   *)
(* 16 bits of its typeAndId, so the exporter takes each of them for a tile *)
(* layer and builds one tile-grid data block per layer                     *)
C29_EditorLayersAreLayerItems ==
  /\ \A i \in 1..Len(layers) :
       /\ TypeOf(ToInt32(layers[i].typeAndId)) = LAYER
       /\ IsTileLayer(AsItem(layers[i]))
  /\ Len(BuildLayerData(PrepareItems(AsItems(layers)))) = Len(layers)


(* ---------------------------------------------------------------------- *)
(* Painting, erasing and pasting on the selected layer of the editor.      *)
(* ---------------------------------------------------------------------- *)

(* arr[index] = v on a JavaScript array: a negative index names a property *)
(* and leaves the elements alone, an index past the end lengthens the      *)
(* array, the gap being holes (<<>>)                                       *)
JsStore(arr, index, v) ==
  IF index < 0 THEN arr
  ELSE IF index < Len(arr) THEN [arr EXCEPT ![index + 1] = v]
  ELSE arr \o [k \in 1..(index - Len(arr)) |-> <<>>] \o <<v>>

(* a guard that only rejects negative coordinates *)
setTileOutside_LowerOnly(tileX, tileY, layer) == tileX < 0 \/ tileY < 0

(* the guard of setTile, TileManager.ts:284 *)
setTileOutside(tileX, tileY, layer) ==
  tileX < 0 \/ tileX >= layer.width \/ tileY < 0 \/ tileY >= layer.height

(* TileManager.setTile: the value returned and layer.tileData afterwards *)
setTile(tileX, tileY, layer, tileId) ==
  IF setTileOutside(tileX, tileY, layer)
  THEN [ret |-> FALSE, tileData |-> layer.tileData]
  ELSE IF HasField(layer, "tileData")
       THEN [ret |-> TRUE,
             tileData |-> JsStore(layer.tileData, tileY * layer.width + tileX,
                                  <<tileId, 0, 0, 0>>)]
       ELSE [ret |-> FALSE, tileData |-> layer.tileData]

(* { ...old, id, flags } *)
PastedTile(old, tile) ==
  IF old = <<>> THEN <<tile[1], tile[2], 0, 0>>
  ELSE <<tile[1], tile[2], old[3], old[4]>>

(* selectedTiles.forEach((tile, i) => ...) of insertTilesAtPosition, from  *)
(* element i (counted from 0) on                                           *)
RECURSIVE PasteFrom(_, _, _, _, _, _, _)
PasteFrom(tileData, layer, cx, cy, selectionWidth, selectedTiles, i) ==
  IF i >= Len(selectedTiles) THEN tileData
  ELSE LET x == cx + (i % selectionWidth)
           y == cy + (i \div selectionWidth)
           index == y * layer.width + x
           next == IF x >= 0 /\ x < layer.width /\ y >= 0 /\ y < layer.height
                      /\ HasField(layer, "tileData")
                   THEN JsStore(tileData, index,
                                PastedTile(tileData[index + 1], selectedTiles[i + 1]))
                   ELSE tileData
       IN PasteFrom(next, layer, cx, cy, selectionWidth, selectedTiles, i + 1)

(* tile ids painted (0 erases) *)
PaintIds == {0, 1}

(* what is on the clipboard: <<there is a selection, its width, the tiles  *)
(* copied>>, a tile being <<id, flags>>                                    *)
Clipboards ==
  { <<FALSE, 1, <<<<1, 1>>, <<1, 1>>>>>>,
    <<TRUE, 1, <<>>>>,
    <<TRUE, 1, <<<<1, 1>>, <<1, 1>>>>>>,
    <<TRUE, 2, <<<<1, 1>>, <<1, 1>>>>>> }

TileXs == -1..EdWidth
TileYs == -1..EdHeight

(* a paint or an erase on the selected layer *)
SetTile ==
  /\ pc = "ed_ready"
  /\ layers # <<>>
  /\ \E tileX \in TileXs, tileY \in TileYs, tileId \in PaintIds :
       LET layer == layers[selectedLayer + 1].parsed
           r == setTile(tileX, tileY, layer, tileId)
       IN /\ layers' = [layers EXCEPT ![selectedLayer + 1].parsed.tileData = r.tileData]
          /\ paint' = [inside |-> /\ tileX >= 0 /\ tileX < layer.width
                                  /\ tileY >= 0 /\ tileY < layer.height,
                       ret |-> r.ret,
                       changed |-> r.tileData # layer.tileData,
                       called |-> TRUE]
  /\ UNCHANGED selectedLayer
  /\ EdUnchanged

insertTilesAtPosition ==
  /\ pc = "ed_ready"
  /\ \E cx \in TileXs, cy \in TileYs, clip \in Clipboards :
       IF ~clip[1] \/ Len(clip[3]) = 0 \/ layers = <<>>
       THEN UNCHANGED layers
       ELSE LET layer == layers[selectedLayer + 1].parsed
            IN layers' = [layers EXCEPT ![selectedLayer + 1].parsed.tileData =
                            PasteFrom(layer.tileData, layer, cx, cy, clip[2], clip[3], 0)]
  /\ UNCHANGED <<selectedLayer, paint>>
  /\ EdUnchanged

PaintInit ==
  /\ pc = "ed_ready"
  /\ initialLayers = <<>>
  /\ layers = InitialLayersState(initialLayers)
  /\ selectedLayer = 0
  /\ paint = NoPaint
  /\ hist = <<>>
  /\ mapItems = <<>>
  /\ items = <<>>
  /\ itemTypes = <<>>
  /\ data = <<>>
  /\ compressedData = <<>>
  /\ itemSizes = <<>>
  /\ itemOffsets = <<>>
  /\ dataOffsets = <<>>
  /\ buffer = <<>>
  /\ wcount = <<>>
  /\ idx = 0
  /\ doc = Failed("none")
  /\ offset = 0

PaintNext ==
  \/ SetTile
  \/ insertTilesAtPosition

PaintSpec == PaintInit /\ [][PaintNext]_vars

(* C24: after any paints, erases and pastes at any coordinates, every      *)
(* layer's tileData has width * height tiles, and a paint outside the grid *)
(* returned false and changed no cell                                      *)
C24_GridKept ==
  /\ \A i \in 1..Len(layers) :
       LET layer == layers[i].parsed
       IN /\ Len(layer.tileData) = layer.width * layer.height
          /\ \A k \in 1..Len(layer.tileData) : Len(layer.tileData[k]) = 4
  /\ (paint.called /\ ~paint.inside) => (~paint.ret /\ ~paint.changed)

(* a grid with a painted and a pasted tile, after a paint outside of it *)
C24_Witness ==
  /\ paint.called
  /\ ~paint.inside
  /\ \E k \in 1..Len(layers[1].parsed.tileData) :
       layers[1].parsed.tileData[k] = <<1, 0, 0, 0>>
  /\ \E k \in 1..Len(layers[1].parsed.tileData) :
       layers[1].parsed.tileData[k] = <<1, 1, 0, 0>>

====
